---- MODULE Spec2Model ----
(***************************************************************************)
(* Document field-extraction and renaming pipelines of the repository:     *)
(*   src/invoice_rename.py    process_directory and its four resolvers     *)
(*   src/extract_coi_date.py  process_pdfs / process_single_pdf (COI)      *)
(* Python str values are modelled as sequences of one-character strings,   *)
(* so that substring tests, split(), find(), upper()/lower() and regular   *)
(* expression matches are computed character by character.                 *)
(***************************************************************************)
EXTENDS Integers, Sequences, FiniteSets, TLC

VARIABLES
    call,         \* arguments of the function under test (function-level specifications)
    ret,          \* its return value, NONE before the call
    input_dir,    \* invoice staging directory: file name -> document
    output_dir,   \* OUTPUT_DIR: file name -> document
    listing,      \* the part of os.listdir(input_dir) process_directory still has to visit
    iter,         \* locals of the last iteration of process_directory's loop
    cois_folder,  \* COIS_FOLDER: file name -> document
    pdf_files,    \* the part of get_pdf_files() process_pdfs still has to visit
    vendors_G,    \* column G of the VENDORS sheet: row -> cell
    result        \* outcome of the last iteration of process_pdfs' loop

vars == <<call, ret, input_dir, output_dir, listing, iter, cois_folder, pdf_files,
          vendors_G, result>>

\* values that are no str: a str is a sequence of one-character strings
NONE == <<"None">>

---------------------------------------------------------------------------
(* Python str primitives                                                   *)

ascii_lowercase == <<"a","b","c","d","e","f","g","h","i","j","k","l","m","n","o","p","q","r","s","t","u","v","w","x","y","z">>
ascii_uppercase == <<"A","B","C","D","E","F","G","H","I","J","K","L","M","N","O","P","Q","R","S","T","U","V","W","X","Y","Z">>
digits == {"0","1","2","3","4","5","6","7","8","9"}
ascii_letters == {ascii_lowercase[i] : i \in 1..26} \cup {ascii_uppercase[i] : i \in 1..26}
\* the letters of the modelled alphabet outside ASCII
e_acute == "é"
E_acute == "É"
whitespace == {" ", "\n", "\t"}

Range(s) == {s[i] : i \in 1..Len(s)}

\* a local variable: F applied to the value of x, which is computed once
Eval(x, F(_)) == CHOOSE r \in {F(v) : v \in {x}} : TRUE

isdigit(ch) == ch \in digits
\* str.isalpha() is true of every Unicode letter
isalpha(ch) == ch \in ascii_letters \cup {e_acute, E_acute}
isspace(ch) == ch \in whitespace

lower_ch(ch) ==
    IF \E i \in 1..26 : ascii_uppercase[i] = ch
    THEN ascii_lowercase[CHOOSE i \in 1..26 : ascii_uppercase[i] = ch]
    ELSE IF ch = E_acute THEN e_acute
    ELSE ch

upper_ch(ch) ==
    IF \E i \in 1..26 : ascii_lowercase[i] = ch
    THEN ascii_uppercase[CHOOSE i \in 1..26 : ascii_lowercase[i] = ch]
    ELSE IF ch = e_acute THEN E_acute
    ELSE ch

lower(s) == [i \in 1..Len(s) |-> lower_ch(s[i])]
upper(s) == [i \in 1..Len(s) |-> upper_ch(s[i])]

\* sub in s
contains(sub, s) ==
    \E i \in 0..(Len(s) - Len(sub)) : SubSeq(s, i + 1, i + Len(sub)) = sub

\* s.find(sub): the lowest 0-based index of an occurrence, -1 when there is none
find(s, sub) ==
    IF contains(sub, s)
    THEN CHOOSE i \in 0..(Len(s) - Len(sub)) :
            /\ SubSeq(s, i + 1, i + Len(sub)) = sub
            /\ \A j \in 0..(i - 1) : SubSeq(s, j + 1, j + Len(sub)) # sub
    ELSE -1

RECURSIVE split_from(_, _, _)
split_from(s, i, cur) ==
    IF i > Len(s) THEN (IF cur = <<>> THEN <<>> ELSE <<cur>>)
    ELSE IF isspace(s[i])
         THEN (IF cur = <<>> THEN split_from(s, i + 1, <<>>)
                             ELSE <<cur>> \o split_from(s, i + 1, <<>>))
         ELSE split_from(s, i + 1, Append(cur, s[i]))

\* s.split(): the maximal runs of non-whitespace characters
split(s) == split_from(s, 1, <<>>)

RECURSIVE join(_, _)
\* sep.join(parts)
join(sep, parts) ==
    IF parts = <<>> THEN <<>>
    ELSE IF Len(parts) = 1 THEN parts[1]
    ELSE parts[1] \o sep \o join(sep, Tail(parts))

RECURSIVE filter_isdigit(_)
\* "".join(filter(str.isdigit, s))
filter_isdigit(s) ==
    IF s = <<>> THEN <<>>
    ELSE IF isdigit(Head(s)) THEN <<Head(s)>> \o filter_isdigit(Tail(s))
    ELSE filter_isdigit(Tail(s))

---------------------------------------------------------------------------
(* String constants of src/invoice_rename.py                               *)

Unknown == <<"U","n","k","n","o","w","n">>
XXX == <<"X","X","X">>
NoName == <<"N","o"," ","N","a","m","e">>
NoDateFound == <<"N","o"," ","D","a","t","e"," ","F","o","u","n","d">>
NoInvoiceNumber == <<"N","o"," ","I","n","v","o","i","c","e"," ","N","u","m","b","e","r">>
InvoiceDateNotFoundInText == <<"I","n","v","o","i","c","e"," ","d","a","t","e"," ","n","o","t"," ","f","o","u","n","d"," ","i","n"," ","t","e","x","t",".">>
NoMatchingInvoiceNumberFound == <<"N","o"," ","M","a","t","c","h","i","n","g"," ","I","n","v","o","i","c","e"," ","N","u","m","b","e","r"," ","F","o","u","n","d">>
MISSING_PROPERTY_CODE == <<"M","I","S","S","I","N","G","_","P","R","O","P","E","R","T","Y","_","C","O","D","E">>
MISSING_VENDOR == <<"M","I","S","S","I","N","G","_","V","E","N","D","O","R">>
MISSING_DATE == <<"M","I","S","S","I","N","G","_","D","A","T","E">>
MISSING_NUMBER == <<"M","I","S","S","I","N","G","_","N","U","M","B","E","R">>
MISSING == <<"M","I","S","S","I","N","G">>
XXXXXX == <<"X","X","X","X","X","X">>

---------------------------------------------------------------------------
(* determine_vendor_name                                                   *)

RECURSIVE first_exact(_, _, _)
\* Step 1: for name in names: if name.lower() in text.lower(): return name
first_exact(names, text, i) ==
    IF i > Len(names) THEN NONE
    ELSE IF contains(lower(names[i]), lower(text)) THEN names[i]
    ELSE first_exact(names, text, i + 1)

RECURSIVE first_split(_, _, _)
\* Step 2: all(part in text.lower() for part in name.lower().split())
first_split(names, text, i) ==
    IF i > Len(names) THEN NONE
    ELSE IF \A part \in Range(split(lower(names[i]))) : contains(part, lower(text))
         THEN names[i]
    ELSE first_split(names, text, i + 1)

\* a variant that runs the split-name loop before the full-name loop
determine_vendor_name_split_first(names, text) ==
    IF first_split(names, text, 1) # NONE THEN first_split(names, text, 1)
    ELSE IF first_exact(names, text, 1) # NONE THEN first_exact(names, text, 1)
    ELSE XXX

\* names is sheet_vendors.col_values(2)[1:]
determine_vendor_name(names, text) ==
    IF first_exact(names, text, 1) # NONE THEN first_exact(names, text, 1)
    ELSE IF first_split(names, text, 1) # NONE THEN first_split(names, text, 1)
    ELSE XXX

---------------------------------------------------------------------------
(* determine_invoice_number                                                *)

\* The VENDORS sheet below its header row: column B (name), column H (sample
\* invoice number); sheet_vendors.get_all_values()[1:]
AlphaCorp == <<"A","l","p","h","a"," ","C","o","r","p">>
BetaLLC == <<"B","e","t","a"," ","L","L","C">>
INV_1234 == <<"I","N","V","-","1","2","3","4">>
B_7 == <<"B",".","7">>
sheet_vendors == << [B |-> AlphaCorp, H |-> INV_1234], [B |-> BetaLLC, H |-> B_7] >>

\* sheet_vendors.col_values(2)[1:]
col_values_2(sheet) == [i \in 1..Len(sheet) |-> sheet[i].B]

\* elements of the generated pattern
RE_DIGIT == "\\d"
RE_ALPHA == "[A-Za-z]"

\* "\\d" for a digit, "[A-Za-z]" for a letter, re.escape(ch) (the literal
\* character) for anything else
regex_pattern(sheet_invoice_number) ==
    [i \in 1..Len(sheet_invoice_number) |->
        IF isdigit(sheet_invoice_number[i]) THEN RE_DIGIT
        ELSE IF isalpha(sheet_invoice_number[i]) THEN RE_ALPHA
        ELSE sheet_invoice_number[i]]

\* one pattern element against one character
element_matches(e, ch) ==
    IF e = RE_DIGIT THEN ch \in digits
    ELSE IF e = RE_ALPHA THEN ch \in ascii_letters
    ELSE e = ch

RECURSIVE fullmatch(_, _)
\* re.fullmatch(pattern, word): the pattern consumes the whole word
fullmatch(pattern, word) ==
    IF pattern = <<>> THEN word = <<>>
    ELSE IF word = <<>> THEN FALSE
    ELSE element_matches(Head(pattern), Head(word)) /\ fullmatch(Tail(pattern), Tail(word))

RECURSIVE search_offsets(_, _, _, _)
\* for offset in range(len(words)): for index in [word_position + offset, word_position - offset]
search_offsets(words, pattern, word_position, offset) ==
    IF offset >= Len(words) THEN NoMatchingInvoiceNumberFound
    ELSE LET hit(index) == /\ 0 <= index
                           /\ index < Len(words)
                           /\ fullmatch(pattern, words[index + 1])
         IN  IF hit(word_position + offset) THEN words[word_position + offset + 1]
             ELSE IF hit(word_position - offset) THEN words[word_position - offset + 1]
             ELSE search_offsets(words, pattern, word_position, offset + 1)

RECURSIVE find_row(_, _, _)
\* for row in records: if row[1].lower() == vendor_name.lower()
find_row(records, vendor_name, i) ==
    IF i > Len(records) THEN 0
    ELSE IF lower(records[i].B) = lower(vendor_name) THEN i
    ELSE find_row(records, vendor_name, i + 1)

\* records is sheet_vendors.get_all_values()[1:]; a sheet call that raises is
\* caught and ends in the same return as a sheet without a row for the vendor,
\* so <<>> stands for it too.
\* The result carries the return value and what the call did on the way:
\* find_called (text.find ran), sheet_read (get_all_values was called),
\* word_position (the search centre, -1 when it was never computed).
determine_invoice_number(vendor_name, invoice_date, text, records) ==
    IF vendor_name = <<>> \/ invoice_date = NoName
    THEN [ret |-> NoInvoiceNumber, find_called |-> FALSE, sheet_read |-> FALSE,
          word_position |-> -1]
    ELSE Eval(find(text, invoice_date), LAMBDA date_index :
         IF date_index = -1
         THEN [ret |-> InvoiceDateNotFoundInText, find_called |-> TRUE,
               sheet_read |-> FALSE, word_position |-> -1]
         ELSE Eval(split(text), LAMBDA words :
              Eval(Len(split(SubSeq(text, 1, date_index))) + 1, LAMBDA word_position :
              Eval(find_row(records, vendor_name, 1), LAMBDA r :
                  [ret |-> IF r = 0 THEN NoInvoiceNumber
                           ELSE Eval(regex_pattern(records[r].H), LAMBDA pattern :
                                     search_offsets(words, pattern, word_position, 0)),
                   find_called |-> TRUE, sheet_read |-> TRUE,
                   word_position |-> word_position]))))

---------------------------------------------------------------------------
(* datetime.strptime / strftime                                            *)

month_abbr == <<<<"J","a","n">>, <<"F","e","b">>, <<"M","a","r">>, <<"A","p","r">>, <<"M","a","y">>, <<"J","u","n">>, <<"J","u","l">>, <<"A","u","g">>, <<"S","e","p">>, <<"O","c","t">>, <<"N","o","v">>, <<"D","e","c">>>>
month_name == <<<<"J","a","n","u","a","r","y">>,
    <<"F","e","b","r","u","a","r","y">>,
    <<"M","a","r","c","h">>,
    <<"A","p","r","i","l">>,
    <<"M","a","y">>,
    <<"J","u","n","e">>,
    <<"J","u","l","y">>,
    <<"A","u","g","u","s","t">>,
    <<"S","e","p","t","e","m","b","e","r">>,
    <<"O","c","t","o","b","e","r">>,
    <<"N","o","v","e","m","b","e","r">>,
    <<"D","e","c","e","m","b","e","r">>>>

digit_chars == <<"0","1","2","3","4","5","6","7","8","9">>
digit_value(ch) == (CHOOSE i \in 1..10 : digit_chars[i] = ch) - 1

\* the n characters of s after the first pos, "" when s is too short
at(s, pos, n) == IF pos + n <= Len(s) THEN SubSeq(s, pos + 1, pos + n) ELSE <<>>

all_digits(s, pos, n) ==
    /\ pos + n <= Len(s)
    /\ \A k \in 1..n : isdigit(s[pos + k])

RECURSIVE int_of(_)
\* int(s) of a string of digits
int_of(s) ==
    IF s = <<>> THEN 0
    ELSE 10 * int_of(SubSeq(s, 1, Len(s) - 1)) + digit_value(s[Len(s)])

\* a datetime (at midnight) is modelled by the number year*10000 + month*100 + day,
\* which orders dates as datetime's comparison does
date_key(y, m, d) == y * 10000 + m * 100 + d
year_of(k) == k \div 10000
month_of(k) == (k % 10000) \div 100
day_of(k) == k % 100

is_leap(y) == (y % 4 = 0 /\ y % 100 # 0) \/ y % 400 = 0
days_in_month(y, m) ==
    IF m = 2 THEN (IF is_leap(y) THEN 29 ELSE 28)
    ELSE IF m \in {4, 6, 9, 11} THEN 30 ELSE 31

\* the directives of the formats used, in the order strptime's regular
\* expression tries their alternatives; the result is the match of the compiled
\* format at the start of s: ok, end (characters consumed) and the fields
nomatch == [ok |-> FALSE, end |-> 0, y |-> 0, m |-> 0, d |-> 0]

RECURSIVE whitespace_run(_, _)
whitespace_run(s, pos) ==
    IF pos < Len(s) /\ isspace(s[pos + 1]) THEN 1 + whitespace_run(s, pos + 1) ELSE 0

RECURSIVE format_match(_, _, _, _, _)
format_match(s, pos, fmt, k, acc) ==
    IF k > Len(fmt) THEN [acc EXCEPT !.ok = TRUE, !.end = pos]
    ELSE
    LET tok == fmt[k]
        next(n, field, v) ==
            format_match(s, pos + n, fmt, k + 1,
                         IF field = "y" THEN [acc EXCEPT !.y = v]
                         ELSE IF field = "m" THEN [acc EXCEPT !.m = v]
                         ELSE IF field = "d" THEN [acc EXCEPT !.d = v]
                         ELSE acc)
        two == IF all_digits(s, pos, 2) THEN int_of(at(s, pos, 2)) ELSE -1
        one == IF all_digits(s, pos, 1) THEN int_of(at(s, pos, 1)) ELSE -1
    IN
    IF tok = "%m" THEN
        \* 1[0-2]|0[1-9]|[1-9]
        LET r2 == IF two >= 1 /\ two <= 12 THEN next(2, "m", two) ELSE nomatch
        IN  IF r2.ok THEN r2
            ELSE IF one >= 1 THEN next(1, "m", one) ELSE nomatch
    ELSE IF tok = "%d" THEN
        \* 3[01]|[12]\d|0[1-9]|[1-9]| [1-9]
        LET r2 == IF two >= 1 /\ two <= 31 THEN next(2, "d", two) ELSE nomatch
            r1 == IF one >= 1 THEN next(1, "d", one) ELSE nomatch
            sp == IF pos + 2 <= Len(s) /\ s[pos + 1] = " " /\ isdigit(s[pos + 2])
                     /\ s[pos + 2] # "0"
                  THEN next(2, "d", digit_value(s[pos + 2])) ELSE nomatch
        IN  IF r2.ok THEN r2 ELSE IF r1.ok THEN r1 ELSE sp
    ELSE IF tok = "%Y" THEN
        IF all_digits(s, pos, 4) THEN next(4, "y", int_of(at(s, pos, 4))) ELSE nomatch
    ELSE IF tok = "%y" THEN
        \* 00..68 are 2000..2068, 69..99 are 1969..1999
        IF all_digits(s, pos, 2)
        THEN next(2, "y", IF two < 69 THEN 2000 + two ELSE 1900 + two)
        ELSE nomatch
    ELSE IF tok = "%b" THEN
        IF \E i \in 1..12 : lower(at(s, pos, 3)) = lower(month_abbr[i])
        THEN next(3, "m", CHOOSE i \in 1..12 : lower(at(s, pos, 3)) = lower(month_abbr[i]))
        ELSE nomatch
    ELSE IF tok = "%B" THEN
        LET fits(i) == lower(at(s, pos, Len(month_name[i]))) = lower(month_name[i])
        IN  IF \E i \in 1..12 : fits(i)
            THEN LET i == CHOOSE i \in 1..12 : fits(i)
                 IN  next(Len(month_name[i]), "m", i)
            ELSE nomatch
    ELSE IF tok = " " THEN
        \* whitespace in a format matches \s+
        IF whitespace_run(s, pos) >= 1 THEN next(whitespace_run(s, pos), "", 0)
        ELSE nomatch
    ELSE IF pos < Len(s) /\ s[pos + 1] = tok THEN next(1, "", 0)
    ELSE nomatch

\* datetime.strptime(s, fmt): the date, or 0 for ValueError (no match, unconverted
\* data remains, or a day that the month does not have)
strptime(s, fmt) ==
    LET r == format_match(s, 0, fmt, 1, [ok |-> FALSE, end |-> 0, y |-> 1900, m |-> 1, d |-> 1])
    IN  IF r.ok /\ r.end = Len(s) /\ r.y >= 1 /\ r.d <= days_in_month(r.y, r.m)
        THEN date_key(r.y, r.m, r.d)
        ELSE 0

two_digits(n) == <<digit_chars[(n \div 10) + 1], digit_chars[(n % 10) + 1]>>

\* date.strftime("%m%d%y")
strftime_mdy(k) == two_digits(month_of(k)) \o two_digits(day_of(k)) \o two_digits(year_of(k) % 100)

\* the format strings of the two files
F_mdY == <<"%m","/","%d","/","%Y">>
F_mdy == <<"%m","/","%d","/","%y">>
F_bdY == <<"%b"," ","%d",","," ","%Y">>
F_BdY == <<"%B"," ","%d",","," ","%Y">>
F_bdy == <<"%b"," ","%d",","," ","%y">>
F_Bdy == <<"%B"," ","%d",","," ","%y">>
F_dmY_dash == <<"%d","-","%m","-","%Y">>
F_dmy_dash == <<"%d","-","%m","-","%y">>
F_dBY == <<"%d"," ","%B"," ","%Y">>
F_dbY == <<"%d"," ","%b"," ","%Y">>
F_mdY_dash == <<"%m","-","%d","-","%Y">>

---------------------------------------------------------------------------
(* Regular expressions of the date patterns                                *)

is_word(ch) == isalpha(ch) \/ isdigit(ch) \/ ch = "_"

\* \b between the first pos characters of s and the rest
word_boundary(s, pos) ==
    (pos >= 1 /\ is_word(s[pos])) # (pos < Len(s) /\ is_word(s[pos + 1]))

\* the digit counts of \d{1,2} sep \d{1,2} sep \d{2,4}, in the order a greedy
\* match with backtracking tries them
numeric_shapes == << <<2,2,4>>, <<2,2,3>>, <<2,2,2>>, <<2,1,4>>, <<2,1,3>>, <<2,1,2>>,
                     <<1,2,4>>, <<1,2,3>>, <<1,2,2>>, <<1,1,4>>, <<1,1,3>>, <<1,1,2>> >>

shape_len(sh) == sh[1] + sh[2] + sh[3] + 2

shape_fits(s, pos, sep, sh, wb) ==
    /\ wb => word_boundary(s, pos)
    /\ all_digits(s, pos, sh[1])
    /\ at(s, pos + sh[1], 1) = <<sep>>
    /\ all_digits(s, pos + sh[1] + 1, sh[2])
    /\ at(s, pos + sh[1] + 1 + sh[2], 1) = <<sep>>
    /\ all_digits(s, pos + sh[1] + sh[2] + 2, sh[3])
    /\ wb => word_boundary(s, pos + shape_len(sh))

\* the match of the numeric pattern that starts after the first pos characters:
\* its shape, <<>> when there is none; wb says whether the pattern has \b anchors
numeric_match(s, pos, sep, wb) ==
    IF \E i \in 1..12 : shape_fits(s, pos, sep, numeric_shapes[i], wb)
    THEN numeric_shapes[CHOOSE i \in 1..12 :
            /\ shape_fits(s, pos, sep, numeric_shapes[i], wb)
            /\ \A j \in 1..(i - 1) : ~shape_fits(s, pos, sep, numeric_shapes[j], wb)]
    ELSE <<>>

RECURSIVE findall_numeric(_, _, _, _)
\* the non-overlapping matches, left to right: [pos, shape]
findall_numeric(s, sep, wb, pos) ==
    IF pos >= Len(s) THEN <<>>
    ELSE LET sh == numeric_match(s, pos, sep, wb) IN
         IF sh # <<>>
         THEN <<[pos |-> pos, shape |-> sh]>> \o findall_numeric(s, sep, wb, pos + shape_len(sh))
         ELSE findall_numeric(s, sep, wb, pos + 1)

RECURSIVE lower_run(_, _)
\* [a-z]*
lower_run(s, pos) ==
    IF pos < Len(s) /\ s[pos + 1] \in Range(ascii_lowercase)
    THEN 1 + lower_run(s, pos + 1) ELSE 0

\* (?:Jan|Feb|...)[a-z]*  or  (?:January|February|...)
month_part(s, pos, full) ==
    IF full
    THEN IF \E i \in 1..12 : at(s, pos, Len(month_name[i])) = month_name[i]
         THEN Len(month_name[CHOOSE i \in 1..12 : at(s, pos, Len(month_name[i])) = month_name[i]])
         ELSE 0
    ELSE IF \E i \in 1..12 : at(s, pos, 3) = month_abbr[i]
         THEN 3 + lower_run(s, pos + 3)
         ELSE 0

\* \b<month> \d{1,2}, \d{4}\b at pos: the length of the match, 0 when there is none
textual_match(s, pos, full) ==
    LET L == month_part(s, pos, full)
        tail(d) == /\ at(s, pos + L, 1) = <<" ">>
                   /\ all_digits(s, pos + L + 1, d)
                   /\ at(s, pos + L + 1 + d, 2) = <<",", " ">>
                   /\ all_digits(s, pos + L + d + 3, 4)
                   /\ word_boundary(s, pos + L + d + 7)
    IN  IF L = 0 \/ ~word_boundary(s, pos) THEN 0
        ELSE IF tail(2) THEN L + 9
        ELSE IF tail(1) THEN L + 8
        ELSE 0

RECURSIVE findall_textual(_, _, _)
\* re.findall of a spelled-month pattern: the matched strings
findall_textual(s, full, pos) ==
    IF pos >= Len(s) THEN <<>>
    ELSE LET n == textual_match(s, pos, full) IN
         IF n > 0 THEN <<at(s, pos, n)>> \o findall_textual(s, full, pos + n)
         ELSE findall_textual(s, full, pos + 1)

\* re.findall of a numeric pattern with \b anchors: the matched strings
findall_bounded(s, sep) ==
    Eval(findall_numeric(s, sep, TRUE, 0),
         LAMBDA ms : [i \in 1..Len(ms) |-> at(s, ms[i].pos, shape_len(ms[i].shape))])

---------------------------------------------------------------------------
(* determine_invoice_date                                                  *)

\* match.replace("-", "/")
replace_dash(s) == [i \in 1..Len(s) |-> IF s[i] = "-" THEN "/" ELSE s[i]]

RECURSIVE last_part_len(_)
\* len(match.split("/")[-1])
last_part_len(s) ==
    IF s = <<>> \/ s[Len(s)] = "/" THEN 0
    ELSE 1 + last_part_len(SubSeq(s, 1, Len(s) - 1))

\* the body of the loop over the matches: the parsed date (0 for ValueError) and
\* the text stored for it in date_text_map
parse_invoice_match(match) ==
    IF "/" \in Range(match) \/ "-" \in Range(match)
    THEN LET m == replace_dash(match)
         IN  [date |-> IF last_part_len(m) = 2 THEN strptime(m, F_mdy) ELSE strptime(m, F_mdY),
              text |-> m]
    ELSE [date |-> IF strptime(match, F_bdY) # 0 THEN strptime(match, F_bdY)
                   ELSE strptime(match, F_BdY),
          text |-> match]

\* the matches of the four date_patterns, in the order the loops visit them
invoice_date_matches(text) ==
    findall_bounded(text, "/") \o findall_bounded(text, "-")
        \o findall_textual(text, FALSE, 0) \o findall_textual(text, TRUE, 0)

\* parsed: per match, in loop order, the date and the text stored for it
furthest_text(parsed) ==
    LET potential_dates == {parsed[i].date : i \in 1..Len(parsed)} \ {0}
    IN  IF potential_dates # {}
        THEN LET furthest_date == CHOOSE d \in potential_dates : \A e \in potential_dates : e <= d
                 \* date_text_map keeps the text of the last match with that date
                 last == CHOOSE i \in 1..Len(parsed) :
                            /\ parsed[i].date = furthest_date
                            /\ \A j \in (i + 1)..Len(parsed) : parsed[j].date # furthest_date
             IN  parsed[last].text
        ELSE NoDateFound

determine_invoice_date(text) ==
    Eval(invoice_date_matches(text),
         LAMBDA ms : Eval([i \in 1..Len(ms) |-> parse_invoice_match(ms[i])], furthest_text))

---------------------------------------------------------------------------
(* determine_property_code                                                 *)

\* The CODE1 sheet below its header row: column A (code), columns B.. (keywords)
Main == <<"M","a","i","n">>
Plaza == <<"P","l","a","z","a">>
Oak == <<"O","a","k">>
sheet_code == << [A |-> <<"1","0","0">>, keywords |-> <<Main, Plaza>>],
                 [A |-> <<"2","0","0">>, keywords |-> <<Oak, <<>>>>] >>

\* matches of one row with every column weighted 1
row_matches_unweighted(keywords, text) ==
    LET score(i) == IF keywords[i] # <<>> /\ contains(lower(keywords[i]), lower(text))
                    THEN 1 ELSE 0
        RECURSIVE sum(_)
        sum(i) == IF i > Len(keywords) THEN 0 ELSE score(i) + sum(i + 1)
    IN  sum(1)

\* matches of one row: column C (i == 1) is weighted 5
row_matches(keywords, text) ==
    LET score(i) == IF keywords[i] # <<>> /\ contains(lower(keywords[i]), lower(text))
                    THEN (IF i - 1 = 1 THEN 5 ELSE 1) ELSE 0
        RECURSIVE sum(_)
        sum(i) == IF i > Len(keywords) THEN 0 ELSE score(i) + sum(i + 1)
    IN  sum(1)

RECURSIVE best_code_from(_, _, _, _, _)
\* for row in codes: if matches > max_matches: ...
best_code_from(codes, text, i, max_matches, best_code) ==
    IF i > Len(codes) THEN best_code
    ELSE IF row_matches(codes[i].keywords, text) > max_matches
         THEN best_code_from(codes, text, i + 1, row_matches(codes[i].keywords, text), codes[i].A)
         ELSE best_code_from(codes, text, i + 1, max_matches, best_code)

determine_property_code(codes, text) == best_code_from(codes, text, 1, 0, Unknown)

---------------------------------------------------------------------------
(* generate_file_name                                                      *)

formatted_vendor_name(vendor_name) == join(<<"_">>, split(upper(vendor_name)))

date_formats == <<F_mdY, F_mdy, F_bdY, F_BdY, F_bdy, F_Bdy, F_dmY_dash, F_dmy_dash>>

RECURSIVE formatted_date_from(_, _)
\* for date_format in date_formats: try strptime ... break
formatted_date_from(invoice_date, i) ==
    IF i > Len(date_formats) THEN XXXXXX
    ELSE IF strptime(invoice_date, date_formats[i]) # 0
         THEN strftime_mdy(strptime(invoice_date, date_formats[i]))
         ELSE formatted_date_from(invoice_date, i + 1)

formatted_date(invoice_date) == formatted_date_from(invoice_date, 1)

formatted_invoice_number(invoice_number) == filter_isdigit(invoice_number)

generate_file_name(property_code, vendor_name, invoice_date, invoice_number) ==
    property_code \o <<"_">> \o formatted_vendor_name(vendor_name) \o <<"_">>
        \o formatted_date(invoice_date) \o <<"_">> \o formatted_invoice_number(invoice_number)

---------------------------------------------------------------------------
(* extract_dates_from_text (src/extract_coi_date.py)                       *)

\* (\d{1,2}\s(?:Jan|...|Dec)[a-z]*\s\d{2,4}) at pos: the length of the match, 0
\* when there is none
coi_textual_match(s, pos) ==
    LET fits(d, c) ==
            /\ all_digits(s, pos, d)
            /\ pos + d < Len(s) /\ isspace(s[pos + d + 1])
            /\ \E i \in 1..12 : at(s, pos + d + 1, 3) = month_abbr[i]
            /\ LET e == pos + d + 4 + lower_run(s, pos + d + 4)
               IN  /\ e < Len(s) /\ isspace(s[e + 1])
                   /\ all_digits(s, e + 1, c)
        len(d, c) == d + 4 + lower_run(s, pos + d + 4) + 1 + c
        order == << <<2,4>>, <<2,3>>, <<2,2>>, <<1,4>>, <<1,3>>, <<1,2>> >>
    IN  IF \E i \in 1..6 : fits(order[i][1], order[i][2])
        THEN LET i == CHOOSE i \in 1..6 :
                        /\ fits(order[i][1], order[i][2])
                        /\ \A j \in 1..(i - 1) : ~fits(order[j][1], order[j][2])
             IN  len(order[i][1], order[i][2])
        ELSE 0

RECURSIVE finditer_coi_textual(_, _)
finditer_coi_textual(s, pos) ==
    IF pos >= Len(s) THEN <<>>
    ELSE LET n == coi_textual_match(s, pos) IN
         IF n > 0 THEN <<at(s, pos, n)>> \o finditer_coi_textual(s, pos + n)
         ELSE finditer_coi_textual(s, pos + 1)

\* a match with three groups: month, day, year; '20' + year for a 2-digit year;
\* strptime(f"{month}/{day}/{year}", '%m/%d/%Y')
parse_groups(s, m) ==
    LET month == at(s, m.pos, m.shape[1])
        day == at(s, m.pos + m.shape[1] + 1, m.shape[2])
        year == at(s, m.pos + m.shape[1] + m.shape[2] + 2, m.shape[3])
        year4 == IF Len(year) = 2 THEN <<"2", "0">> \o year ELSE year
    IN  strptime(month \o <<"/">> \o day \o <<"/">> \o year4, F_mdY)

coi_other_formats == <<F_dBY, F_dbY, F_mdY, F_mdY_dash>>

RECURSIVE parse_other(_, _)
\* for fmt in ['%d %B %Y', '%d %b %Y', '%m/%d/%Y', '%m-%d-%Y']: try ... break;
\* 0 when no format fits, which leaves date_obj as it was
parse_other(date_str, i) ==
    IF i > Len(coi_other_formats) THEN 0
    ELSE IF strptime(date_str, coi_other_formats[i]) # 0
         THEN strptime(date_str, coi_other_formats[i])
         ELSE parse_other(date_str, i + 1)

\* the matches of the three date_patterns in the order the loops visit them:
\* groups (3 or 1) and the date parsed from the match (0 when none)
coi_date_matches(text) ==
    LET num(sep) == Eval(findall_numeric(text, sep, FALSE, 0),
                         LAMBDA ms : [i \in 1..Len(ms) |->
                                        [groups |-> 3, date |-> parse_groups(text, ms[i])]])
        txt == Eval(finditer_coi_textual(text, 0),
                    LAMBDA ms : [i \in 1..Len(ms) |->
                                    [groups |-> 1, date |-> parse_other(ms[i], 1)]])
    IN  num("/") \o num("-") \o txt

\* if date_obj > today: if latest_date is None or date_obj > latest_date
consider(st, today) ==
    IF st.date_obj > today /\ (st.latest_date = 0 \/ st.date_obj > st.latest_date)
    THEN [st EXCEPT !.latest_date = st.date_obj]
    ELSE st

RECURSIVE dates_loop(_, _, _, _)
\* The loops over patterns and matches. date_obj = 0 is the unbound local,
\* latest_date = 0 is None. A match of the third pattern that no format parses
\* leaves date_obj as the previous match set it; reading it while unbound raises
\* UnboundLocalError, which only the outer "except Exception" catches: the loops end.
dates_loop(ms, i, st, today) ==
    IF i > Len(ms) THEN st
    ELSE IF ms[i].groups = 3
    THEN IF ms[i].date = 0
         THEN dates_loop(ms, i + 1, st, today)
         ELSE Eval(consider([st EXCEPT !.date_obj = ms[i].date], today),
                   LAMBDA st2 : dates_loop(ms, i + 1, st2, today))
    ELSE IF ms[i].date # 0
         THEN Eval(consider([st EXCEPT !.date_obj = ms[i].date], today),
                   LAMBDA st2 : dates_loop(ms, i + 1, st2, today))
    ELSE IF st.date_obj = 0
         THEN [st EXCEPT !.raised = TRUE]
         ELSE Eval(consider(st, today), LAMBDA st2 : dates_loop(ms, i + 1, st2, today))

\* today is datetime.now(); the result is latest_date, 0 for None
extract_dates_from_text(text, today) ==
    Eval(coi_date_matches(text),
         LAMBDA ms : dates_loop(ms, 1, [date_obj |-> 0, latest_date |-> 0, raised |-> FALSE],
                                today).latest_date)

---------------------------------------------------------------------------
(* Function-level specifications: Init draws the arguments, one action calls  *)
(* the function                                                            *)

Idle == <<>>

\* all sequences over S of length at most n
SeqsUpTo(S, n) == UNION {[1..k -> S] : k \in 0..n}

\* the sequences of SeqsUpTo(S, n) without a repeated element
DistinctSeqs(S, n) == {q \in SeqsUpTo(S, n) : \A i, j \in 1..Len(q) : i # j => q[i] # q[j]}

OthersIdle ==
    /\ input_dir = Idle /\ output_dir = Idle /\ listing = Idle /\ iter = Idle
    /\ cois_folder = Idle /\ pdf_files = Idle /\ vendors_G = Idle /\ result = Idle

OthersUnchanged ==
    UNCHANGED <<input_dir, output_dir, listing, iter, cois_folder, pdf_files, vendors_G, result>>

Returned == call.state = "returned"

(* determine_vendor_name on every short text over VendorChars, against every  *)
(* registry of at most MaxVendors distinct names of VendorNames            *)
MaxTextLen == 4
MaxVendors == 2
VendorChars == {"a", "b", "C", " "}
VendorNames == { <<"a"," ","c">>, <<"B">>, <<"c","a">> }

InitVendor ==
    /\ \E names \in DistinctSeqs(VendorNames, MaxVendors) :
       \E text \in SeqsUpTo(VendorChars, MaxTextLen) :
            call = [state |-> "ready", names |-> names, text |-> text]
    /\ ret = NONE
    /\ OthersIdle

CallVendor ==
    /\ call.state = "ready"
    /\ ret' = determine_vendor_name(call.names, call.text)
    /\ call' = [call EXCEPT !.state = "returned"]
    /\ OthersUnchanged

SpecVendor == InitVendor /\ [][CallVendor]_vars

(* the pattern test of determine_invoice_number on every short sample and token *)
MaxTokLen == 2
PatternChars == {"A", "b", "1", "2", "-", ".", e_acute}
INV_5678 == <<"I","N","V","-","5","6","7","8">>
INVOICE_99 == <<"I","N","V","O","I","C","E","-","9","9">>
N1234 == <<"1","2","3","4">>

InitPattern ==
    /\ \E sample \in SeqsUpTo(PatternChars, MaxTokLen) \cup {INV_1234} :
       \E token \in SeqsUpTo(PatternChars, MaxTokLen) \cup {INV_5678, INVOICE_99, N1234} :
            call = [state |-> "ready", sample |-> sample, token |-> token]
    /\ ret = NONE
    /\ OthersIdle

\* re.fullmatch(regex_pattern, words[index]) with the pattern built from the sample
CallPattern ==
    /\ call.state = "ready"
    /\ ret' = fullmatch(regex_pattern(call.sample), call.token)
    /\ call' = [call EXCEPT !.state = "returned"]
    /\ OthersUnchanged

SpecPattern == InitPattern /\ [][CallPattern]_vars

(* determine_invoice_number on every text of at most MaxWords words of       *)
(* NumberWords, for a resolved and an unresolved vendor and date           *)
MaxWords == 4
INV_0001 == <<"I","N","V","-","0","0","0","1">>
INV_0002 == <<"I","N","V","-","0","0","0","2">>
Date1 == <<"1","/","5","/","2","0","9","9">>
LabelledDate1 == <<"D","a","t","e",":","1","/","5","/","2","0","9","9">>
NumberWords == {Date1, LabelledDate1, INV_0001, INV_0002, <<"x">>}

InitNumber ==
    /\ \E ws \in SeqsUpTo(NumberWords, MaxWords) :
       \E vendor_name \in {AlphaCorp, XXX, <<>>} :
       \E invoice_date \in {Date1, NoDateFound} :
            call = [state |-> "ready", vendor_name |-> vendor_name,
                    invoice_date |-> invoice_date, text |-> join(<<" ">>, ws)]
    /\ ret = NONE
    /\ OthersIdle

CallNumber ==
    /\ call.state = "ready"
    /\ ret' = determine_invoice_number(call.vendor_name, call.invoice_date, call.text,
                                       sheet_vendors)
    /\ call' = [call EXCEPT !.state = "returned"]
    /\ OthersUnchanged

SpecNumber == InitNumber /\ [][CallNumber]_vars

(* extract_dates_from_text on every text of at most MaxDates date strings of  *)
(* DateWords, for a reference date before and after some of them           *)
MaxDates == 3
DateWords == { <<"1","/","2","/","3","0">>,                         \* 2030-01-02
               <<"0","1","/","0","5","/","2","0","2","5">>,         \* 2025-01-05
               <<"3","-","4","-","2","0","3","1">>,                 \* 2031-03-04
               <<"1","3","/","1","/","2","0","4","0">>,             \* month 13
               <<"2","-","3","0","-","2","0","3","1">>,             \* 30 February
               <<"1","5"," ","S","e","p","t"," ","2","0","9","9">>, \* no format parses "Sept"
               <<"1","6"," ","J","a","n","u","a","r","y"," ","2","0","3","2">> }
Todays == {20241231, 20300102}

InitDates ==
    /\ \E ws \in SeqsUpTo(DateWords, MaxDates) :
       \E today \in Todays :
            call = [state |-> "ready", text |-> join(<<" ">>, ws), today |-> today,
                    words |-> ws]
    /\ ret = NONE
    /\ OthersIdle

CallDates ==
    /\ call.state = "ready"
    /\ ret' = extract_dates_from_text(call.text, call.today)
    /\ call' = [call EXCEPT !.state = "returned"]
    /\ OthersUnchanged

SpecDates == InitDates /\ [][CallDates]_vars

---------------------------------------------------------------------------
(* Properties of the resolvers                                             *)

\* the dates of the matches that parse, strictly after today
FutureDates(text, today) ==
    LET ms == coi_date_matches(text)
    IN  {d \in {ms[i].date : i \in 1..Len(ms)} : d # 0 /\ d > today}

\* C5: extract_dates_from_text returns the maximum of all well-formed date
\* matches strictly later than the reference date, whatever their format and
\* order in the text, and None when no match is strictly later.
C5_LatestFutureDate ==
    Returned =>
        LET F == FutureDates(call.text, call.today)
        IN  ret = IF F = {} THEN 0 ELSE CHOOSE d \in F : \A e \in F : e <= d

\* the 0-based index of the word of text that holds the character at date_index
AnchorWord(text, invoice_date) ==
    Len(split(SubSeq(text, 1, find(text, invoice_date) + 1))) - 1

\* the 0-based indices of the words that fully match the vendor's pattern
MatchingWords(text, vendor_name) ==
    LET row == find_row(sheet_vendors, vendor_name, 1)
        words == split(text)
    IN  {j \in 0..(Len(words) - 1) : fullmatch(regex_pattern(sheet_vendors[row].H), words[j + 1])}

\* the call reaches the search: the vendor has a row and the date occurs in the text
SearchReached ==
    /\ Returned
    /\ call.vendor_name # <<>>
    /\ find_row(sheet_vendors, call.vendor_name, 1) # 0
    /\ find(call.text, call.invoice_date) # -1

Abs(n) == IF n < 0 THEN -n ELSE n

\* C6: the search returns a matching token at the smallest word distance from
\* the word that holds the date; at equal distance the token after the date wins
\* (anchor+offset is tested before anchor-offset, anchor being the date's word).
C6_NearestToDateWord ==
    (SearchReached /\ MatchingWords(call.text, call.vendor_name) # {}) =>
        LET a == AnchorWord(call.text, call.invoice_date)
            M == MatchingWords(call.text, call.vendor_name)
            rank(j) == 2 * Abs(j - a) + (IF j >= a THEN 0 ELSE 1)
            best == CHOOSE j \in M : \A k \in M : rank(j) <= rank(k)
        IN  ret.ret = split(call.text)[best + 1]

\* C7: if at least one word of the text fully matches the pattern, the search
\* returns a matching word, wherever the date sits in the text.
C7_SearchFindsAnyMatch ==
    (SearchReached /\ MatchingWords(call.text, call.vendor_name) # {}) =>
        \E j \in MatchingWords(call.text, call.vendor_name) :
            ret.ret = split(call.text)[j + 1]

ExactHit(name, text) == contains(lower(name), lower(text))
SplitHit(name, text) == \A part \in Range(split(lower(name))) : contains(part, lower(text))

\* C8: determine_vendor_name returns the first vendor in registry order whose
\* full name is a case-insensitive substring of the text; only when there is none,
\* the first vendor all of whose name tokens are substrings of the text; and the
\* not-found value when no vendor matches either way.
C8_ExactThenSplit ==
    Returned =>
        LET n == Len(call.names)
            E == {i \in 1..n : ExactHit(call.names[i], call.text)}
            S == {i \in 1..n : SplitHit(call.names[i], call.text)}
            least(I) == CHOOSE i \in I : \A j \in I : i <= j
        IN  ret = IF E # {} THEN call.names[least(E)]
                  ELSE IF S # {} THEN call.names[least(S)]
                  ELSE XXX

\* C8 witness: an exact match of the second vendor wins over a token match of the first
C8_Witness ==
    /\ Returned
    /\ Len(call.names) = 2
    /\ SplitHit(call.names[1], call.text) /\ ~ExactHit(call.names[1], call.text)
    /\ ExactHit(call.names[2], call.text)
    /\ ret = call.names[2]

\* token has the shape of sample, for a given notion of letter
SameShape(sample, token, letter(_)) ==
    /\ Len(token) = Len(sample)
    /\ \A i \in 1..Len(sample) :
            IF isdigit(sample[i]) THEN isdigit(token[i])
            ELSE IF letter(sample[i]) THEN letter(token[i])
            ELSE token[i] = sample[i]

\* C9: a token matches the pattern built from a sample iff it has the sample's
\* length and at every position a digit where the sample has a digit, a letter
\* where the sample has a letter, and the identical character elsewhere; a
\* letter being read either as a character of A-Z, a-z or as any alphabetic
\* character, the same way for the sample and the token.
C9_PatternIsShape ==
    Returned =>
        \/ ret = SameShape(call.sample, call.token, LAMBDA ch : ch \in ascii_letters)
        \/ ret = SameShape(call.sample, call.token, isalpha)

\* C10: when the vendor is unresolved (determine_vendor_name returned "XXX") or
\* the date is unresolved (determine_invoice_date returned "No Date Found"),
\* determine_invoice_number returns "No Invoice Number" at once, without
\* searching the text and without reading the vendor's sample from the sheet.
C10_UnresolvedShortCircuits ==
    (Returned /\ (call.vendor_name = XXX \/ call.invoice_date = NoDateFound)) =>
        /\ ret.ret = NoInvoiceNumber
        /\ ~ret.find_called
        /\ ~ret.sheet_read

---------------------------------------------------------------------------
(* process_directory (src/invoice_rename.py)                               *)

\* os.rename(src, dst) inside one directory, POSIX: an existing dst is replaced
rename_in(dir, src, dst) ==
    IF src = dst THEN dir
    ELSE [n \in (DOMAIN dir \ {src}) \cup {dst} |-> IF n = dst THEN dir[src] ELSE dir[n]]

\* the directory without the entry name
without(dir, name) == [n \in DOMAIN dir \ {name} |-> dir[n]]

\* the directory with name bound to doc; an existing entry is replaced
with_entry(dir, name, doc) == [n \in DOMAIN dir \cup {name} |-> IF n = name THEN doc ELSE dir[n]]

RECURSIVE last_dot(_)
\* the 1-based position of the last "." of name, 0 when it has none
last_dot(name) ==
    IF name = <<>> THEN 0
    ELSE IF name[Len(name)] = "." THEN Len(name)
    ELSE last_dot(SubSeq(name, 1, Len(name) - 1))

\* os.path.splitext(filename)[1]
splitext_ext(filename) ==
    IF last_dot(filename) > 1 THEN SubSeq(filename, last_dot(filename), Len(filename)) ELSE <<>>

\* the documents of a batch: what OCR reads from each
NDocs == 2
DocTexts == {
    <<"M","a","i","n"," ","A","l","p","h","a"," ","C","o","r","p"," ","1","/","5","/","2","0","9","9"," ","I","N","V","-","0","0","0","1">>,
    <<"M","a","i","n"," ","1","/","5","/","2","0","9","9"," ","I","N","V","-","0","0","0","1">>,
    <<"n","o","t","h","i","n","g">>,
    <<"M","a","i","n"," ","A","l","p","h","a"," ","C","o","r","p"," ","I","N","V","-","0","0","0","1">>,
    <<"M","a","i","n"," ","A","l","p","h","a"," ","C","o","r","p"," ","1","/","5","/","2","0","9","9">>,
    <<"A","l","p","h","a"," ","C","o","r","p"," ","1","/","5","/","2","0","9","9"," ","I","N","V","-","0","0","0","1">>,
    <<"M","a","i","n"," ","A","l","p","h","a"," ","C","o","r","p"," ","0","1","-","0","5","-","2","0","9","9"," ","I","N","V","-","0","0","0","1">> }

dot_pdf == <<".","p","d","f">>
StagingName(i) == <<ascii_lowercase[i]>> \o dot_pdf
\* a file that an earlier batch left in OUTPUT_DIR
EarlierOutput == <<"1","0","0","_","A","L","P","H","A","_","C","O","R","P","_","0","1","0","5","9","9","_","0","0","0","1",".","p","d","f">>

NoIter == [filename |-> NONE, status |-> "none", id |-> -1, text |-> NONE, property_code |-> NONE,
           vendor_name |-> NONE, invoice_date |-> NONE, invoice_number |-> NONE,
           new_file_name |-> NONE]

Init ==
    /\ \E texts \in [1..NDocs -> DocTexts] :
            input_dir = [n \in {StagingName(i) : i \in 1..NDocs} |->
                            LET i == CHOOSE i \in 1..NDocs : StagingName(i) = n
                            IN  [id |-> i, text |-> texts[i]]]
    /\ output_dir = [n \in {EarlierOutput} |-> [id |-> 0, text |-> <<>>]]
    /\ listing = [i \in 1..NDocs |-> StagingName(i)]
    /\ iter = NoIter
    /\ call = Idle /\ ret = Idle
    /\ cois_folder = Idle /\ pdf_files = Idle /\ vendors_G = Idle /\ result = Idle

\* where an iteration can raise: nowhere, in the text extraction, in the rename
\* inside the input directory, in the move to OUTPUT_DIR
Faults == {"none", "extract", "rename", "move"}

\* One iteration of the loop over os.listdir(input_dir), for the next file name.
\* The listing is taken once, before the loop; every file of the model has one
\* of the four extensions.
ProcessFile ==
    /\ listing # <<>>
    /\ listing' = Tail(listing)
    /\ UNCHANGED <<call, ret, cois_folder, pdf_files, vendors_G, result>>
    /\ LET filename == Head(listing) IN
       \E fault \in Faults :
       IF fault = "extract" \/ filename \notin DOMAIN input_dir
       THEN \* except Exception: "Failed to process"
            /\ iter' = [NoIter EXCEPT !.filename = filename, !.status = "failed"]
            /\ UNCHANGED <<input_dir, output_dir>>
       ELSE
       \* each local is bound to its value once, in the order the code assigns it
       \E doc \in {input_dir[filename]} :
       \E property_code \in {determine_property_code(sheet_code, doc.text)} :
       \E vendor_name \in {determine_vendor_name(col_values_2(sheet_vendors), doc.text)} :
       \E invoice_date \in {determine_invoice_date(doc.text)} :
       \E invoice_number \in {determine_invoice_number(vendor_name, invoice_date, doc.text,
                                                        sheet_vendors).ret} :
       \E new_file_name \in {generate_file_name(
               IF property_code # Unknown THEN property_code ELSE MISSING_PROPERTY_CODE,
               IF vendor_name # NoName THEN vendor_name ELSE MISSING_VENDOR,
               IF invoice_date # NoDateFound THEN invoice_date ELSE MISSING_DATE,
               IF invoice_number # NoInvoiceNumber THEN invoice_number ELSE MISSING_NUMBER)} :
       LET new_name == new_file_name \o splitext_ext(filename)
           locals == [filename |-> filename, status |-> "done", id |-> doc.id, text |-> doc.text,
                      property_code |-> property_code, vendor_name |-> vendor_name,
                      invoice_date |-> invoice_date, invoice_number |-> invoice_number,
                      new_file_name |-> new_file_name]
       IN  IF fault = "rename"
           THEN /\ iter' = [locals EXCEPT !.status = "failed"]
                /\ UNCHANGED <<input_dir, output_dir>>
           ELSE IF contains(MISSING, new_file_name)
           THEN \* "File not moved due to missing elements."
                /\ input_dir' = rename_in(input_dir, filename, new_name)
                /\ iter' = locals
                /\ UNCHANGED output_dir
           ELSE IF fault = "move"
           THEN /\ input_dir' = rename_in(input_dir, filename, new_name)
                /\ iter' = [locals EXCEPT !.status = "failed"]
                /\ UNCHANGED output_dir
           ELSE /\ input_dir' = without(rename_in(input_dir, filename, new_name), new_name)
                /\ output_dir' = with_entry(output_dir, new_name, doc)
                /\ iter' = locals

Next == ProcessFile

Spec == Init /\ [][Next]_vars

---------------------------------------------------------------------------
(* Properties of process_directory                                         *)

\* the ids of the documents held by a directory
Ids(dir) == {dir[n].id : n \in DOMAIN dir}

\* the not-found results of the four resolvers
NotFoundNumbers == {NoInvoiceNumber, InvoiceDateNotFoundInText, NoMatchingInvoiceNumberFound}
PropertyResolved == iter.property_code # Unknown
VendorResolved == iter.vendor_name # XXX
DateResolved == iter.invoice_date # NoDateFound
NumberResolved == iter.invoice_number \notin NotFoundNumbers

\* C1: a file is moved to OUTPUT_DIR if and only if all four fields were
\* resolved for it; with at least one not-found result the file is only renamed
\* in place and stays in the input directory.
C1_MovedIffAllResolved ==
    iter.status = "done" =>
        /\ iter.id \in Ids(output_dir) <=>
              (PropertyResolved /\ VendorResolved /\ DateResolved /\ NumberResolved)
        /\ iter.id \in Ids(input_dir) <=>
              ~(PropertyResolved /\ VendorResolved /\ DateResolved /\ NumberResolved)

\* C2: no rename or relocation replaces an existing file: every file that
\* existed before the batch (in the staging directory or in OUTPUT_DIR) still
\* exists with its own content.
C2_NoFileReplaced ==
    \A id \in 0..NDocs : id \in Ids(input_dir) \cup Ids(output_dir)

\* C4: for each field independently, an unresolved field appears in the file
\* name as its placeholder (MISSING_PROPERTY_CODE, MISSING_VENDOR, MISSING_DATE,
\* MISSING_NUMBER) in the field's position, and the resolved fields appear
\* formatted: the code verbatim, the vendor upper-cased with underscores, the
\* date as MMDDYY, the digits of the number.
C4_PlaceholderPerField ==
    iter.status = "done" =>
        iter.new_file_name =
            (IF PropertyResolved THEN iter.property_code ELSE MISSING_PROPERTY_CODE)
            \o <<"_">> \o
            (IF VendorResolved THEN formatted_vendor_name(iter.vendor_name) ELSE MISSING_VENDOR)
            \o <<"_">> \o
            (IF DateResolved THEN formatted_date(iter.invoice_date) ELSE MISSING_DATE)
            \o <<"_">> \o
            (IF NumberResolved THEN formatted_invoice_number(iter.invoice_number)
             ELSE MISSING_NUMBER)


\* C11: whenever the pipeline does not substitute MISSING_NUMBER for the
\* invoice number, the value handed to generate_file_name is one of the
\* whitespace-separated tokens of the document text.
C11_NumberIsTextToken ==
    (iter.status # "none" /\ iter.invoice_number \notin {NONE, NoInvoiceNumber}) =>
        iter.invoice_number \in Range(split(iter.text))

---------------------------------------------------------------------------
(* process_pdfs (src/extract_coi_date.py)                                  *)

RECURSIVE lstrip(_)
lstrip(s) == IF s # <<>> /\ isspace(Head(s)) THEN lstrip(Tail(s)) ELSE s

RECURSIVE rstrip(_)
rstrip(s) == IF s # <<>> /\ isspace(s[Len(s)]) THEN rstrip(SubSeq(s, 1, Len(s) - 1)) ELSE s

\* s.strip()
strip(s) == rstrip(lstrip(s))

RECURSIVE sub_special(_)
\* re.sub(r'[^a-zA-Z0-9\s]', '', s)
sub_special(s) ==
    IF s = <<>> THEN <<>>
    ELSE IF Head(s) \in ascii_letters \cup digits \/ isspace(Head(s))
         THEN <<Head(s)>> \o sub_special(Tail(s))
         ELSE sub_special(Tail(s))

\* s.replace(' ', '_')
replace_space(s) == [i \in 1..Len(s) |-> IF s[i] = " " THEN "_" ELSE s[i]]

\* date.strftime('%m/%d/%Y')
strftime_slash(k) ==
    two_digits(month_of(k)) \o <<"/">> \o two_digits(day_of(k)) \o <<"/">>
        \o two_digits(year_of(k) \div 100) \o two_digits(year_of(k) % 100)

UNKNOWN == <<"U","N","K","N","O","W","N">>
COI_ == <<"C","O","I","_">>
VendorHeader == <<"V","e","n","d","o","r">>

\* VENDORS!B:B, the header row included
rows_B == <<VendorHeader>> \o col_values_2(sheet_vendors)

\* get_active_vendor_list(): VENDORS!B2:B, [] when the sheet call raises
get_active_vendor_list(sheet_fails) ==
    IF sheet_fails THEN <<>> ELSE SubSeq(rows_B, 2, Len(rows_B))

\* extract_vendor_name: content is the collaborator's answer, NONE when the
\* call raises. The vendor list enters the prompt and nothing else.
extract_vendor_name(content) ==
    IF content = NONE THEN NONE
    ELSE IF strip(content) # UNKNOWN THEN strip(content) ELSE NONE

\* rename_file_with_date: vendor_name, from result['vendor']
coi_vendor_name(vendor) == replace_space(upper(strip(sub_special(vendor))))

\* the file name rename_file_with_date builds from result
new_filename(date, vendor) ==
    COI_ \o coi_vendor_name(vendor) \o <<"_">>
         \o strftime_mdy(strptime(date, F_mdY)) \o dot_pdf

\* update_vendor_coi_date: the 1-based row of the vendor in VENDORS!B:B, 0 for None
vendor_row(vendor_name) ==
    IF \E i \in 1..Len(rows_B) : strip(rows_B[i]) = vendor_name
    THEN CHOOSE i \in 1..Len(rows_B) :
            /\ strip(rows_B[i]) = vendor_name
            /\ \A j \in 1..(i - 1) : strip(rows_B[j]) # vendor_name
    ELSE 0

\* update_vendor_coi_date: column G after the call
update_vendor_coi_date(G, vendor_name, new_date, sheet_fails) ==
    IF sheet_fails \/ vendor_row(vendor_name) = 0 THEN G
    ELSE [G EXCEPT ![vendor_row(vendor_name)] = strftime_mdy(strptime(new_date, F_mdY))]

\* the certificates of a batch: what OCR reads from the date region of each
NPdfs == 2
CoiDateTexts == {
    <<"0","1","/","0","5","/","2","0","9","9">>,
    <<" ","1","/","2","/","3","0"," ","3","-","4","-","2","0","3","1","\n">>,
    <<"0","1","/","0","5","/","2","0","2","5">>,
    <<"n","o","t","h","i","n","g">> }

\* what the free-text matching collaborator may answer
AlphaCo == <<"A","l","p","h","a"," ","C","o",".">>
LlmAnswers == {AlphaCorp, <<" ">> \o BetaLLC \o <<"\n">>, UNKNOWN, AlphaCo, <<>>}

\* what OCR may read from the vendor region: a text that holds a name of the
\* vendor sheet verbatim, and one that holds none
VendorRegionTexts == {<<"I","n","s","u","r","e","d",":"," ">> \o AlphaCorp \o <<"\n">>,
                      <<"G","a","m","m","a"," ","I","n","c">>}

\* pdf_to_images: None when convert_from_path raises ("images", caught by
\* "except Exception") and when it does not return within
\* PDF_CONVERSION_TIMEOUT ("images_late", caught by "except TimeoutError"), the
\* pages otherwise
PAGES == <<"page 1">>
pdf_to_images(conversion) ==
    IF conversion = "images" THEN NONE
    ELSE IF conversion = "images_late" THEN NONE
    ELSE PAGES

\* a local that was never assigned
UNSET == <<"unset">>

\* the outcome of an iteration: images is what pdf_to_images returned, fault is the event that took place in it (none
\* when the iteration ended before the event's call), stage the step it got to, attempted the regions whose extraction was started, list_reads the
\* calls of get_active_vendor_list() since the batch began, vendor_text the text
\* passed to extract_vendor_name, llm_called whether that call was made
NoResult == [pdf_file |-> NONE, status |-> "none", id |-> -1, date |-> NONE, vendor |-> NONE,
             vendor_list |-> NONE, new_filename |-> NONE, fault |-> "none", stage |-> "none",
             attempted |-> {}, list_reads |-> 0, vendor_text |-> NONE, llm_called |-> FALSE,
             images |-> UNSET]

InitCoi ==
    /\ \E texts \in [1..NPdfs -> CoiDateTexts] :
            cois_folder = [n \in {StagingName(i) : i \in 1..NPdfs} |->
                              LET i == CHOOSE i \in 1..NPdfs : StagingName(i) = n
                              IN  [id |-> i, date_text |-> texts[i]]]
    /\ pdf_files = [i \in 1..NPdfs |-> StagingName(i)]
    /\ vendors_G = [i \in 1..Len(rows_B) |-> <<>>]
    /\ result = NoResult
    /\ call = Idle /\ ret = Idle
    /\ input_dir = Idle /\ output_dir = Idle /\ listing = Idle /\ iter = Idle

\* the regions of TEXT_REGIONS, in the order the loop visits them
Regions == <<"date", "vendor">>

\* What can happen in an iteration, one event at most:
\*   images            convert_from_path raises
\*   images_late       it returns after PDF_CONVERSION_TIMEOUT
\*   images_never      it never returns
\*   ocr_R_error       the OCR call of region R raises
\*   ocr_R_late        it returns after VISION_API_TIMEOUT
\*   ocr_R_never       it never returns
\*   vendor_list, llm, update, rename   that call raises
\*   interrupt_P       KeyboardInterrupt arrives during the extraction, after the
\*                     resolution, or after the write to the sheet
CoiFaults == {"none", "images", "images_late", "images_never",
              "ocr_date_error", "ocr_date_late", "ocr_date_never",
              "ocr_vendor_error", "ocr_vendor_late", "ocr_vendor_never",
              "vendor_list", "llm", "update", "rename",
              "interrupt_extract", "interrupt_resolve", "interrupt_rename"}

\* "for pdf_file in pdf_files" takes the next file: there is one, and the
\* iteration before it has ended
next_pdf_taken == pdf_files # <<>> /\ result.status \notin {"blocked", "interrupted"}

\* One iteration of the loop of process_pdfs: process_single_pdf(pdf_file) and,
\* when it returns a result, rename_file_with_date(pdf_file, result).
\* A timeout is caught inside "with ThreadPoolExecutor() as executor", whose exit
\* is shutdown(wait=True): the return waits for the worker, and never happens
\* when the call never returns (status "blocked"). KeyboardInterrupt is no
\* Exception: it passes every handler up to process_pdfs, which calls
\* sys.exit(0) (status "interrupted").
ProcessPdf ==
    /\ next_pdf_taken
    /\ pdf_files' = Tail(pdf_files)
    /\ UNCHANGED <<call, ret, input_dir, output_dir, listing, iter>>
    /\ LET pdf_file == Head(pdf_files) IN
       \* what the date resolver returns for the file's date region at each
       \* reading of the clock, computed once for all outcomes of the other calls
       \E dates \in {[today \in Todays |->
                        IF pdf_file \in DOMAIN cois_folder
                        THEN extract_dates_from_text(strip(cois_folder[pdf_file].date_text), today)
                        ELSE 0]} :
       \E fault \in CoiFaults, today \in Todays, answer \in LlmAnswers :
       LET base == [NoResult EXCEPT !.pdf_file = pdf_file, !.list_reads = result.list_reads]
           \* the iteration ends with nothing written and nothing renamed
           stop(event, status, stage, attempted) ==
               /\ result' = [base EXCEPT !.fault = event, !.status = status, !.stage = stage,
                                         !.attempted = attempted,
                                         !.images = IF stage # "raster" THEN pdf_to_images(fault)
                                                    ELSE IF status = "skipped"
                                                    THEN pdf_to_images(event)
                                                    ELSE UNSET]
               /\ UNCHANGED <<cois_folder, vendors_G>>
           ocr_error == IF fault \in {"ocr_date_error", "ocr_vendor_error"} THEN fault ELSE "none"
       IN
       IF fault = "interrupt_extract" THEN stop(fault, "interrupted", "raster", {})
       ELSE IF fault = "images_never" THEN stop(fault, "blocked", "raster", {})
       ELSE IF pdf_to_images(fault) = NONE \/ pdf_file \notin DOMAIN cois_folder
       THEN \* if not images: return None
            stop(IF pdf_file \in DOMAIN cois_folder THEN fault ELSE "images",
                 "skipped", "raster", {})
       ELSE IF fault = "ocr_date_never" THEN stop(fault, "blocked", "ocr", {Regions[1]})
       ELSE IF fault = "ocr_date_late"
       THEN \* except TimeoutError: return None
            stop(fault, "skipped", "ocr", {Regions[1]})
       ELSE IF fault = "ocr_vendor_never"
       THEN stop(fault, "blocked", "ocr", {Regions[1], Regions[2]})
       ELSE IF fault = "ocr_vendor_late"
       THEN stop(fault, "skipped", "ocr", {Regions[1], Regions[2]})
       ELSE
       \E doc \in {cois_folder[pdf_file]} :
       \E updated_coi_date \in {IF fault = "ocr_date_error"
                                THEN extract_dates_from_text(strip(<<>>), today)
                                ELSE dates[today]} :
       IF updated_coi_date = 0
       THEN \* if not date_str: return None
            stop(ocr_error, "skipped", "dates", {Regions[1], Regions[2]})
       ELSE
       \E date_str \in {strftime_slash(updated_coi_date)} :
       \* extracted_texts['vendor']: "" when the OCR call of the region raised
       \E vendor_text \in IF fault = "ocr_vendor_error" THEN {<<>>} ELSE VendorRegionTexts :
       \E vendor_list \in {get_active_vendor_list(fault = "vendor_list")} :
       \E vendor_name \in {extract_vendor_name(IF fault = "llm" THEN NONE ELSE answer)} :
       \E res \in {[base EXCEPT !.status = "done", !.stage = "rename",
                                !.fault = IF fault = "update"
                                             /\ vendor_name \in {NONE, <<>>, UNKNOWN}
                                          THEN "none" ELSE fault,
                                !.attempted = {Regions[1], Regions[2]},
                                !.id = doc.id, !.date = date_str,
                                !.vendor = IF vendor_name \in {NONE, <<>>} THEN UNKNOWN
                                           ELSE vendor_name,
                                !.vendor_list = vendor_list,
                                !.list_reads = result.list_reads + 1,
                                !.vendor_text = vendor_text, !.llm_called = TRUE,
                                !.images = pdf_to_images(fault)]} :
       IF fault = "interrupt_resolve"
       THEN /\ result' = [res EXCEPT !.status = "interrupted", !.stage = "write_back"]
            /\ UNCHANGED <<cois_folder, vendors_G>>
       ELSE
          /\ vendors_G' = IF vendor_name \notin {NONE, <<>>, UNKNOWN}
                          THEN update_vendor_coi_date(vendors_G, vendor_name, date_str,
                                                      fault = "update")
                          ELSE vendors_G
          /\ IF fault = "interrupt_rename"
             THEN /\ result' = [res EXCEPT !.status = "interrupted"]
                  /\ UNCHANGED cois_folder
             ELSE IF fault = "rename"
             THEN \* rename_file_with_date returns pdf_file
                  /\ result' = res
                  /\ UNCHANGED cois_folder
             ELSE /\ result' = [res EXCEPT !.new_filename = new_filename(res.date, res.vendor)]
                  /\ cois_folder' = rename_in(cois_folder, pdf_file,
                                              new_filename(res.date, res.vendor))

SpecCoi == InitCoi /\ [][ProcessPdf]_vars

---------------------------------------------------------------------------
(* Properties of process_pdfs                                              *)

\* C3: whatever the free-text matching collaborator answers, the vendor name
\* that the resolver returns, and that is written into the file name, is a name
\* of the vendor list or the unresolved result UNKNOWN.
C3_VendorFromRegistry ==
    result.status = "done" =>
        /\ result.vendor \in Range(col_values_2(sheet_vendors)) \cup {UNKNOWN}
        /\ result.new_filename # NONE =>
              \E v \in Range(col_values_2(sheet_vendors)) \cup {UNKNOWN} :
                  result.new_filename = new_filename(result.date, v)


\* the events of an iteration, by kind
OcrFailures == {"ocr_date_error", "ocr_vendor_error"}
OcrTimeouts == {"ocr_date_late", "ocr_vendor_late"}
NeverReturns == {"images_never", "ocr_date_never", "ocr_vendor_never"}
Interrupts == {"interrupt_extract", "interrupt_resolve", "interrupt_rename"}

\* process_single_pdf got as far as the resolution of the fields
ResolutionStarted == result.stage \in {"dates", "write_back", "rename"}

\* C12: a failure or a timeout of the OCR call of one region does not make
\* process_single_pdf abandon the document: the processing goes on to the
\* resolution of the fields, with empty text for that region.
C12_OcrFailureGoesOn ==
    result.fault \in OcrFailures \cup OcrTimeouts => ResolutionStarted

\* C13: when a rasterization or OCR call never returns, the document is still
\* finished once the deadline expires, with the controlled unresolved result,
\* and the loop goes on to the next document.
C13_DeadlineEndsHungCall ==
    result.fault \in NeverReturns =>
        /\ result.status = "skipped"
        /\ pdf_files # <<>> => next_pdf_taken

\* C14: once the page is rasterized, the extraction of both regions is attempted
\* whatever the outcome of the other region's extraction, and the resolution
\* starts only after both.
C14_BothRegionsAttempted ==
    (result.status \in {"skipped", "done"} /\ result.stage # "raster") =>
        result.attempted = {"date", "vendor"}

\* C15: no unreadable file, OCR error, timeout, resolution failure, registry
\* failure or rename error on one document ends the loop before the remaining
\* documents have been attempted (a user's interrupt aside).
C15_LoopAttemptsEveryDocument ==
    (pdf_files # <<>> /\ result.fault \notin Interrupts) => next_pdf_taken

\* C16: a KeyboardInterrupt that arrives while a document is processed does not
\* stop that document midway: the document completes its pipeline (extraction,
\* write-back, rename) before the batch halts.
C16_InterruptAtDocumentBoundary ==
    result.fault \in Interrupts =>
        /\ result.stage = "rename"
        /\ result.date # NONE => result.new_filename # NONE

\* C17: within one batch the vendor list is read from the registry at most once.
C17_VendorListReadOnce == result.list_reads <= 1

\* C19: a readable document whose date is unresolved still gets a file name and
\* is renamed in staging.
C19_UnresolvedDateStillRenamed ==
    (result.status = "skipped" /\ result.stage = "dates"
        /\ result.fault \notin OcrFailures) =>
            /\ result.new_filename # NONE
            /\ result.pdf_file \notin DOMAIN cois_folder


\* C18: when the rename or the relocation to OUTPUT_DIR fails, the document is
\* left under its original name in the input directory.
C18_FailedRenameLeavesOriginal ==
    (iter.status = "failed" /\ iter.new_file_name # NONE) =>
        /\ iter.filename \in DOMAIN input_dir
        /\ input_dir[iter.filename].id = iter.id

---------------------------------------------------------------------------
(* determine_invoice_date against a reference date                         *)

InvoiceDateWords == { <<"0","1","/","0","5","/","2","0","2","0">>,              \* 2020-01-05
                      <<"1","/","5","/","2","0","9","9">>,                      \* 2099-01-05
                      <<"1","2","-","0","1","-","2","3">>,                      \* 2023-12-01
                      <<"J","a","n"," ","5",","," ","2","0","2","0">>,          \* 2020-01-05
                      <<"M","a","r","c","h"," ","3",","," ","2","0","3","1">>,  \* 2031-03-03
                      <<"1","3","/","1","/","2","0","4","0">>,                  \* month 13
                      <<"x">> }

\* today is the reference date of the caller; determine_invoice_date has no
\* parameter for it and does not read the clock
InitInvoiceDate ==
    /\ \E ws \in SeqsUpTo(InvoiceDateWords, MaxDates) :
       \E today \in Todays :
            call = [state |-> "ready", text |-> join(<<" ">>, ws), today |-> today]
    /\ ret = NONE
    /\ OthersIdle

CallInvoiceDate ==
    /\ call.state = "ready"
    /\ ret' = determine_invoice_date(call.text)
    /\ call' = [call EXCEPT !.state = "returned"]
    /\ OthersUnchanged

SpecInvoiceDate == InitInvoiceDate /\ [][CallInvoiceDate]_vars

\* the dates of the matches of text that parse
InvoiceDates(text) ==
    Eval(invoice_date_matches(text),
         LAMBDA ms : {parse_invoice_match(ms[i]).date : i \in 1..Len(ms)} \ {0})

\* C20: on text whose dates are all in the past relative to the reference date
\* determine_invoice_date returns "No Date Found", never a past date.
C20_InvoiceDateFutureOnly ==
    Returned =>
        ((\A d \in InvoiceDates(call.text) : d <= call.today) => ret = NoDateFound)

---------------------------------------------------------------------------
(* Both date resolvers on a numeric date with a 2-digit year                 *)

\* every 2-digit year "00" .. "99"
YearSuffixes == {<<a, b>> : a \in Range(digit_chars), b \in Range(digit_chars)}
Separators == {"/", "-"}
Companion == <<"0","1","/","0","5","/","2","0","2","5">>    \* 2025-01-05

\* 12<sep>01<sep>YY
numeric_date(sep, year) == <<"1","2">> \o <<sep>> \o <<"0","1">> \o <<sep>> \o year

\* the 2-digit-year date alone, before and after a date with a 4-digit year
InitYear ==
    /\ \E year \in YearSuffixes, sep \in Separators, today \in Todays :
       \E ws \in {<<numeric_date(sep, year)>>, <<numeric_date(sep, year), Companion>>,
                  <<Companion, numeric_date(sep, year)>>} :
            call = [state |-> "ready", text |-> join(<<" ">>, ws), today |-> today,
                    year |-> year, words |-> ws]
    /\ ret = NONE
    /\ OthersIdle

CallYear ==
    /\ call.state = "ready"
    /\ ret' = [coi |-> extract_dates_from_text(call.text, call.today),
               invoice |-> determine_invoice_date(call.text)]
    /\ call' = [call EXCEPT !.state = "returned"]
    /\ OthersUnchanged

SpecYear == InitYear /\ [][CallYear]_vars

\* the date of word w when a 2-digit year YY is the year 20YY
DateAs20YY(w) == IF w = Companion THEN 20250105 ELSE date_key(2000 + int_of(call.year), 12, 1)

\* C21: a numeric date match with a 2-digit year YY is the year 20YY for every
\* YY from 00 to 99, in both date resolvers: extract_dates_from_text returns the
\* latest date after today with 12/01/YY read as 20YY-12-01, and
\* determine_invoice_date returns the text of the latest date read that way.
C21_TwoDigitYearIs20YY ==
    Returned =>
        LET words == Range(call.words)
            future == {w \in words : DateAs20YY(w) > call.today}
            latest(S) == CHOOSE w \in S : \A v \in S : DateAs20YY(v) <= DateAs20YY(w)
        IN  /\ ret.coi = IF future = {} THEN 0 ELSE DateAs20YY(latest(future))
            /\ replace_dash(ret.invoice) = replace_dash(latest(words))

---------------------------------------------------------------------------
(* extract_dates_from_text and matches that are no calendar date            *)

\* a date string matched by one of the date_patterns that does not parse
Malformed(w) ==
    Eval(coi_date_matches(w), LAMBDA ms : \E i \in 1..Len(ms) : ms[i].date = 0)

\* ws without its i-th element
drop(ws, i) == SubSeq(ws, 1, i - 1) \o SubSeq(ws, i + 1, Len(ws))

\* C22: a regex match that cannot be parsed into a calendar date is discarded
\* without effect on the other matches: the result of extract_dates_from_text
\* equals its result on the same text with the malformed match removed, wherever
\* the malformed match occurs and whichever pattern produced it.
C22_MalformedMatchDiscarded ==
    Returned =>
        \A i \in 1..Len(call.words) :
            Malformed(call.words[i]) =>
                ret = extract_dates_from_text(join(<<" ">>, drop(call.words, i)), call.today)

---------------------------------------------------------------------------
(* The vendor resolution of process_single_pdf                              *)

\* a name of the vendor list occurs verbatim in text
HoldsRegistryName(vendor_list, text) ==
    \E i \in 1..Len(vendor_list) : contains(vendor_list[i], text)

\* C23: the free-text matching collaborator is called for a document only after
\* the exact and the tokenized tier found no vendor in the document's text; a
\* document whose text contains a registry name verbatim never triggers a
\* collaborator call.
C23_CollaboratorIsLastTier ==
    result.llm_called => ~HoldsRegistryName(result.vendor_list, result.vendor_text)

---------------------------------------------------------------------------
(* The vendor part of the file names, on every short vendor name             *)

MaxNameLen == 4
NameChars == {"a", "B", "7", " ", "."}

InitVendorPart ==
    /\ \E vendor \in SeqsUpTo(NameChars, MaxNameLen) :
            call = [state |-> "ready", vendor |-> vendor]
    /\ ret = NONE
    /\ OthersIdle

CallVendorPart ==
    /\ call.state = "ready"
    /\ ret' = [invoice |-> formatted_vendor_name(call.vendor),
               coi |-> coi_vendor_name(call.vendor)]
    /\ call' = [call EXCEPT !.state = "returned"]
    /\ OthersUnchanged

SpecVendorPart == InitVendorPart /\ [][CallVendorPart]_vars

RECURSIVE alnum_or_space(_)
\* s without the characters that are neither alphanumeric nor whitespace
alnum_or_space(s) ==
    IF s = <<>> THEN <<>>
    ELSE IF Head(s) \in ascii_letters \cup digits \/ isspace(Head(s))
         THEN <<Head(s)>> \o alnum_or_space(Tail(s))
         ELSE alnum_or_space(Tail(s))

RECURSIVE runs_to_underscore(_)
\* s with each run of whitespace replaced by one underscore
runs_to_underscore(s) ==
    IF s = <<>> THEN <<>>
    ELSE IF isspace(Head(s))
         THEN <<"_">> \o runs_to_underscore(SubSeq(s, 1 + whitespace_run(s, 0), Len(s)))
         ELSE <<Head(s)>> \o runs_to_underscore(Tail(s))

\* the vendor part as described, with whitespace at the ends of the name either
\* kept as a run or dropped
VendorParts(vendor) ==
    {runs_to_underscore(upper(alnum_or_space(vendor))),
     runs_to_underscore(upper(strip(alnum_or_space(vendor))))}

\* C24: the vendor part of every produced file name (invoice and COI) is the
\* vendor name with every character that is neither alphanumeric nor whitespace
\* removed, then upper-cased, with each run of whitespace replaced by exactly one
\* underscore; it holds only A-Z, 0-9 and single underscores.
C24_VendorPartFormat ==
    Returned =>
        /\ ret.invoice \in VendorParts(call.vendor)
        /\ ret.coi \in VendorParts(call.vendor)

---------------------------------------------------------------------------
(* generate_file_name on the dates that determine_invoice_date returns        *)

MaxDateWords == 2

\* date strings as they stand in a text, with the six digits MMDDYY of each
\* (NONE: month 13, no date)
DatedWords == {
    [word |-> <<"1","0","/","0","5","/","2","0","2","5">>,
     mdy |-> <<"1","0","0","5","2","5">>],
    [word |-> <<"1","/","5","/","2","0","9","9">>,
     mdy |-> <<"0","1","0","5","9","9">>],
    [word |-> <<"1","2","/","0","1","/","6","9">>,
     mdy |-> <<"1","2","0","1","6","9">>],
    [word |-> <<"1","2","-","0","1","-","2","3">>,
     mdy |-> <<"1","2","0","1","2","3">>],
    [word |-> <<"3","-","4","-","2","0","3","1">>,
     mdy |-> <<"0","3","0","4","3","1">>],
    [word |-> <<"J","a","n"," ","5",","," ","2","0","2","0">>,
     mdy |-> <<"0","1","0","5","2","0">>],
    [word |-> <<"M","a","r","c","h"," ","3",","," ","2","0","3","1">>,
     mdy |-> <<"0","3","0","3","3","1">>],
    [word |-> <<"M","a","y"," ","7",","," ","2","0","2","4">>,
     mdy |-> <<"0","5","0","7","2","4">>],
    [word |-> <<"1","3","/","1","/","2","0","4","0">>,
     mdy |-> NONE] }

Code100 == <<"1","0","0">>
AcmeSupply == <<"A","c","m","e"," ","S","u","p","p","l","y">>
AcmeSupplyInc == <<"A","c","m","e"," ","S","u","p","p","l","y",","," ","I","n","c",".">>
\* resolved fields with the part of the file name each one gives
ResolvedVendors == {[name |-> AcmeSupply, part |-> <<"A","C","M","E","_","S","U","P","P","L","Y">>],
                    [name |-> AcmeSupplyInc,
                     part |-> <<"A","C","M","E","_","S","U","P","P","L","Y","_","I","N","C">>]}
ResolvedNumbers == {[number |-> INV_1234, digits |-> <<"1","2","3","4">>],
                    [number |-> B_7, digits |-> <<"7">>]}

InitFileName ==
    /\ \E ws \in SeqsUpTo(DatedWords, MaxDateWords) :
       \E vendor \in ResolvedVendors, number \in ResolvedNumbers :
            call = [state |-> "ready", words |-> ws,
                    text |-> join(<<" ">>, [i \in 1..Len(ws) |-> ws[i].word]),
                    property_code |-> Code100, vendor |-> vendor, number |-> number]
    /\ ret = NONE
    /\ OthersIdle

\* invoice_date = determine_invoice_date(text), then generate_file_name on the
\* fields as process_directory passes them
CallFileName ==
    /\ call.state = "ready"
    /\ \E invoice_date \in {determine_invoice_date(call.text)} :
            ret' = [invoice_date |-> invoice_date,
                    file_name |-> generate_file_name(
                        call.property_code, call.vendor.name,
                        IF invoice_date # NoDateFound THEN invoice_date ELSE MISSING_DATE,
                        call.number.number)]
    /\ call' = [call EXCEPT !.state = "returned"]
    /\ OthersUnchanged

SpecFileName == InitFileName /\ [][CallFileName]_vars

\* C25: for fully resolved fields generate_file_name returns the property code
\* verbatim, the formatted vendor, the date as six digits MMDDYY and the digits
\* of the invoice number, joined by underscores in that order, for every date
\* string that determine_invoice_date returns (slash, dash or spelled month).
C25_FileNameOfResolvedFields ==
    (Returned /\ ret.invoice_date # NoDateFound) =>
        \E i \in 1..Len(call.words) :
            /\ call.words[i].mdy # NONE
            /\ replace_dash(call.words[i].word) = ret.invoice_date
            /\ ret.file_name = call.property_code \o <<"_">> \o call.vendor.part \o <<"_">>
                                  \o call.words[i].mdy \o <<"_">> \o call.number.digits

---------------------------------------------------------------------------
(* get_intersection_bounds (src/extract_coi_date.py)                        *)

\* int(size * (percent / 100)). The float product truncates to the exact
\* quotient for every size below 50, the sizes used here; the first size where
\* rounding makes it one less is 50 (percent 58).
get_intersection_bounds(image, vertical_range, horizontal_range) ==
    LET width == image.size[1]
        height == image.size[2]
        pixels(size, percent) == (size * percent) \div 100
    IN  [left |-> pixels(width, horizontal_range[1]),
         top |-> pixels(height, vertical_range[1]),
         right |-> pixels(width, horizontal_range[2]),
         bottom |-> pixels(height, vertical_range[2])]

MaxSide == 3
\* the percentages of TEXT_REGIONS and the ends of the scale
Percents == {0, 20, 32, 35, 45, 50, 69, 100}
Ranges == {r \in Percents \X Percents : r[1] < r[2]}

InitBounds ==
    /\ \E W \in 1..MaxSide, H \in 1..MaxSide, vertical_range \in Ranges, horizontal_range \in Ranges :
            call = [state |-> "ready", image |-> [size |-> <<W, H>>],
                    vertical_range |-> vertical_range, horizontal_range |-> horizontal_range]
    /\ ret = NONE
    /\ OthersIdle

CallBounds ==
    /\ call.state = "ready"
    /\ ret' = get_intersection_bounds(call.image, call.vertical_range, call.horizontal_range)
    /\ call' = [call EXCEPT !.state = "returned"]
    /\ OthersUnchanged

SpecBounds == InitBounds /\ [][CallBounds]_vars

\* C26: for every region with 0 <= v0 < v1 <= 100 and 0 <= h0 < h1 <= 100 and
\* every image size W x H (W, H >= 1) the box of get_intersection_bounds has
\* 0 <= left < right <= W and 0 <= top < bottom <= H: the crop is a non-empty
\* rectangle inside the image.
C26_BoxInsideImage ==
    Returned =>
        /\ 0 <= ret.left /\ ret.left < ret.right /\ ret.right <= call.image.size[1]
        /\ 0 <= ret.top /\ ret.top < ret.bottom /\ ret.bottom <= call.image.size[2]

---------------------------------------------------------------------------
(* The outcomes of pdf_to_images                                            *)

\* C27: pdf_to_images reports a conversion timeout with an outcome that its
\* caller can tell apart from the outcome it reports for an unreadable or
\* unsupported file.
C27_TimeoutDistinctFromInputError ==
    result.fault = "images_late" => result.images # pdf_to_images("images")

---------------------------------------------------------------------------
(* Write-back and rename of one certificate                                 *)

\* C28: the expiration date of a vendor is updated in the registry for a
\* document only if that document's file ends up renamed to its
\* COI_<VENDOR>_<MMDDYY> name; no run (a failed rename and an interruption
\* included) leaves the registry updated and the file under its old name.
C28_WriteBackOnlyWithRename ==
    [][vendors_G' # vendors_G =>
            /\ result'.new_filename = new_filename(result'.date, result'.vendor)
            /\ result'.new_filename \in DOMAIN cois_folder'
            /\ result'.pdf_file \notin DOMAIN cois_folder']_vars

---------------------------------------------------------------------------
(* The resolved date as anchor of the invoice number search                 *)

\* C29: when determine_invoice_date resolves a date, the string it returns
\* occurs verbatim in the text it was given, for slash, dash and spelled-month
\* matches alike, so determine_invoice_number finds the anchor position of a
\* resolved date and never ends with the date-not-found outcome.
C29_ResolvedDateOccursInText ==
    (iter.status # "none" /\ iter.invoice_date \notin {NONE, NoDateFound}) =>
        /\ contains(iter.invoice_date, iter.text)
        /\ iter.invoice_number # InvoiceDateNotFoundInText

---------------------------------------------------------------------------
(* determine_property_code on every CODE sheet of at most MaxRows rows       *)

MaxRows == 2
\* what a keyword cell of the CODE sheet may hold
KeywordCells == {Main, Oak, <<>>}
PropertyTexts == {
    <<>>,
    <<"x">>,
    <<"t","h","e"," ","m","a","i","n"," ","s","t">>,
    <<"O","A","K">>,
    <<"O","a","k"," ","a","n","d"," ","M","A","I","N">>,
    <<"O","a","k","l","a","n","d">> }

\* column A of row i: 100, 200, ... (a property code is never the string
\* "Unknown", the value for no match)
CodeOfRow(i) == <<digit_chars[i + 1], "0", "0">>

\* the sheets with columns A, B and C
InitProperty ==
    /\ \E n \in 0..MaxRows :
       \E cells \in [1..n -> KeywordCells \X KeywordCells] :
       \E text \in PropertyTexts :
            call = [state |-> "ready", text |-> text,
                    codes |-> [i \in 1..n |-> [A |-> CodeOfRow(i), keywords |-> cells[i]]]]
    /\ ret = NONE
    /\ OthersIdle

CallProperty ==
    /\ call.state = "ready"
    /\ ret' = determine_property_code(call.codes, call.text)
    /\ call' = [call EXCEPT !.state = "returned"]
    /\ OthersUnchanged

SpecProperty == InitProperty /\ [][CallProperty]_vars

\* keyword is a cell with something in it that occurs in text, letter case aside
Occurs(keyword, text) ==
    /\ keyword # <<>>
    /\ \E p \in 0..(Len(text) - Len(keyword)) :
            \A j \in 1..Len(keyword) : lower_ch(text[p + j]) = lower_ch(keyword[j])

\* 1 for a keyword of column B that occurs, 5 for one of column C
Score(row, text) ==
    (IF Occurs(row.keywords[1], text) THEN 1 ELSE 0)
        + (IF Occurs(row.keywords[2], text) THEN 5 ELSE 0)

\* C30: determine_property_code returns 'Unknown' if and only if no keyword of
\* any row occurs (case-insensitively) in the text; otherwise it returns the
\* code of the first row, in sheet order, that has the highest score, where a
\* matching keyword counts 1 and a matching column-C keyword counts 5.
C30_FirstRowOfHighestScore ==
    Returned =>
        LET rows == 1..Len(call.codes)
            none == \A i \in rows : \A k \in 1..2 : ~Occurs(call.codes[i].keywords[k], call.text)
        IN  /\ ret = Unknown <=> none
            /\ ~none =>
                  \E i \in rows :
                      /\ ret = call.codes[i].A
                      /\ \A j \in rows : Score(call.codes[j], call.text) <= Score(call.codes[i], call.text)
                      /\ \A j \in 1..(i - 1) :
                            Score(call.codes[j], call.text) < Score(call.codes[i], call.text)

\* a column-C keyword of the second row outweighs a column-B keyword of the first
C30_Witness ==
    /\ Returned
    /\ Len(call.codes) = 2
    /\ Score(call.codes[1], call.text) = 1
    /\ Score(call.codes[2], call.text) = 5
    /\ ret = CodeOfRow(2)

====
